---- MODULE Spec2Model ----
(***************************************************************************)
(* Report rendering pipeline of the photographic-report generator:         *)
(*   - processImage / the normalization worker and its request table       *)
(*     (src/services/docxService.ts),                                      *)
(*   - the layout loops of generatePdf (src/services/pdfService.ts) and    *)
(*     generateDocx (src/services/docxService.ts),                         *)
(*   - handleGenerate of the App component (src/unnamed/part_000, the      *)
(*     App.tsx revision that passes styleMode to the generators).          *)
(* Lengths of the fixed-page variant are kept in half millimetres, the     *)
(* smallest step the source uses (a grid3 caption line is 3.5 mm).         *)
(***************************************************************************)
EXTENDS Integers, Sequences, FiniteSets, TLC

\* ------------------------------------------------------------------ bounds
MaxImages == 3
MaxCommentLines == 40
MaxGenerations == 2
MaxIds == 2
MaxCalls == 3
MaxNameLen == 3
MaxEditorImages == 2
MaxUploads == 3
MaxEdits == 2
MaxLiveGenerations == 1

\* ------------------------------------------------- constants of the source
HalfMm == 2
PAGE_HEIGHT == 297
MARGIN_Y == 20
MARGIN_BOTTOM == 20
LIST_IMG_WIDTH == 120
GRID_CELL_HEIGHT == 60
GRID3_CELL_HEIGHT == 42
MAX_DIMENSION == 1600
GRID3_LINE_HALF_MM == 7

Mm(x) == x * HalfMm

Max(a, b) == IF a >= b THEN a ELSE b
Min(a, b) == IF a <= b THEN a ELSE b

\* Math.round(a / b) for positive a, b
RoundDiv(a, b) == (2 * a + b) \div (2 * b)

\* ------------------------------------------------------------ input values
Layouts == {"list", "grid", "grid3"}
Styles == {"simple", "card"}
Types == {"doc", "pdf"}

\* The photographs a user can put in the list: a decodable 4:3 landscape
\* photo without description, a decodable 4:1 panorama turned by 90 degrees
\* whose description wraps to two lines, and a file that does not decode.
Photos ==
  { [srcW |-> 4000, srcH |-> 3000, decodable |-> TRUE, rotation |-> 0,
     hasDescription |-> FALSE, lines |-> 1],
    [srcW |-> 3200, srcH |-> 800, decodable |-> TRUE, rotation |-> 90,
     hasDescription |-> TRUE, lines |-> 2],
    [srcW |-> 800, srcH |-> 600, decodable |-> FALSE, rotation |-> 0,
     hasDescription |-> TRUE, lines |-> 1] }

ImageLists == UNION { [1..n -> Photos] : n \in 0..MaxImages }

\* The report header: with an address and no comments, or without address and
\* with comments that split into MaxCommentLines lines.
ReportDatas ==
  { [hasAddress |-> TRUE, commentLines |-> 0],
    [hasAddress |-> FALSE, commentLines |-> MaxCommentLines] }

Ids == 1..MaxIds

\* Sources of the image normalizer alone: sides below, at and above
\* MAX_DIMENSION, square, nearly square and extremely elongated sizes, every
\* rotation rotateImage produces ((rotation + 90) % 360 from 0).
Sides == {1, 600, MAX_DIMENSION, MAX_DIMENSION + 1, 3999, 4000}
Rotations == {0, 90, 180, 270}
Sources ==
  [srcW : Sides, srcH : Sides, decodable : BOOLEAN, rotation : Rotations,
   hasDescription : {FALSE}, lines : {1}]

VARIABLES
  images, layout, styleMode, data,   \* App state read by handleGenerate
  offscreen,                         \* typeof OffscreenCanvas !== 'undefined'
  status, errorModal,                \* GenerationStatus and the error modal
  pc, genType, generations,          \* the generator activation
  i, got, awaiting,                  \* loop index, results of the row, awaited promise
  cursorY, pages, rows, skipped,     \* document under construction
  outcome, artifacts,                \* how the last generation ended, files delivered
  promises,                          \* promises returned by processImage
  pendingRequests,                   \* Map id -> {resolve, reject}
  workerInbox, mainInbox,            \* messages posted to / by the worker
  mainThreadJobs,                    \* images loading in processImageOnMainThread
  calls,                             \* the images of the direct processImage calls
  fit,                               \* a call of calculateFitDimensions and its result
  caption,                           \* the caption of one figure and what is written for it
  download,                          \* an institution name and the file name saved for it
  editor,                            \* the list, layout and style the editing handlers work on
  edits                              \* the number of edits made beside a generation

appVars == <<images, layout, styleMode, data, offscreen>>
docVars == <<cursorY, pages, rows, skipped>>
genVars == <<status, errorModal, pc, genType, generations, i, got, awaiting,
             outcome, artifacts>>
workerVars == <<promises, pendingRequests, workerInbox, mainInbox, mainThreadJobs>>
callVars == <<calls, fit, caption, download, editor, edits>>
vars == <<appVars, docVars, genVars, workerVars, callVars>>

\* ------------------------------------------------------- JavaScript numbers
\* calculateFitDimensions computes in IEEE 754 double precision.  A positive
\* number is m * 2^e with m a significand of SignificandBits bits, kept as
\* the sequence of its bits, most significant (always 1) first.
SignificandBits == 53

Zero == [kind |-> "zero", m |-> <<>>, e |-> 0]
Infinity == [kind |-> "inf", m |-> <<>>, e |-> 0]
NaN == [kind |-> "nan", m |-> <<>>, e |-> 0]

\* The binary digits of a natural number, and back.
RECURSIVE IntBits(_)
IntBits(n) == IF n = 0 THEN <<>> ELSE Append(IntBits(n \div 2), n % 2)

\* b + 1 on bit sequences; a carry out of the first bit lengthens the result.
IncBits(b) ==
  IF \A k \in 1..Len(b) : b[k] = 1
  THEN <<1>> \o [k \in 1..Len(b) |-> 0]
  ELSE LET p == CHOOSE k \in 1..Len(b) :
                  b[k] = 0 /\ \A j \in (k + 1)..Len(b) : b[j] = 1
       IN [k \in 1..Len(b) |-> IF k < p THEN b[k] ELSE IF k = p THEN 1 ELSE 0]

\* Round to nearest, ties to even: the double nearest to bits * 2^e, where
\* bits starts with 1 and sticky tells that the exact value lies above it.
RoundToDouble(bits, e, sticky) ==
  LET L == Len(bits) IN
  IF L <= SignificandBits
  THEN [kind |-> "num",
        m |-> bits \o [x \in 1..(SignificandBits - L) |-> 0],
        e |-> e - (SignificandBits - L)]
  ELSE LET top == SubSeq(bits, 1, SignificandBits)
           guard == bits[SignificandBits + 1]
           rest == sticky \/ \E x \in (SignificandBits + 2)..L : bits[x] = 1
           up == guard = 1 /\ (rest \/ top[SignificandBits] = 1)
           inc == IncBits(top)
       IN IF ~up THEN [kind |-> "num", m |-> top, e |-> e + (L - SignificandBits)]
          ELSE IF Len(inc) = SignificandBits
          THEN [kind |-> "num", m |-> inc, e |-> e + (L - SignificandBits)]
          ELSE [kind |-> "num", m |-> SubSeq(inc, 1, SignificandBits),
                e |-> e + (L - SignificandBits) + 1]

\* A natural number as a double.
FromInt(n) == IF n = 0 THEN Zero ELSE RoundToDouble(IntBits(n), 0, FALSE)

\* 2^j modulo x, by repeated squaring.
RECURSIVE Pow2Mod(_, _)
Pow2Mod(j, x) ==
  IF j = 0 THEN 1 % x
  ELSE LET half == Pow2Mod(j \div 2, x)
       IN (half * half * (IF j % 2 = 1 THEN 2 ELSE 1)) % x

\* Long division r / x for r < x: the remainder after k bits below the
\* binary point, and the k-th of these bits.
RemainderAfter(r, x, k) == (r * Pow2Mod(k, x)) % x
QuotientBit(r, x, k) == (2 * RemainderAfter(r, x, k - 1)) \div x

\* The first 1 of a bit sequence that has one.
FirstOne(b) == CHOOSE k \in 1..Len(b) : b[k] = 1 /\ \A j \in 1..(k - 1) : b[j] = 0

\* a / b of two naturals, a > 0: Infinity when b = 0, else the quotient
\* developed to two bits more than the significand and rounded.
JsDiv(a, b) ==
  IF b = 0 THEN Infinity
  ELSE IF a % b = 0 THEN FromInt(a \div b)
  ELSE LET whole == IntBits(a \div b)
           digits == whole \o [k \in 1..(2 * SignificandBits) |-> QuotientBit(a % b, b, k)]
           first == FirstOne(digits)
           last == first + SignificandBits + 1
           below == last - Len(whole)
       IN RoundToDouble(SubSeq(digits, first, last), 0 - below,
                        RemainderAfter(a % b, b, below) # 0)

\* The number the bits lo..hi of b spell.
RECURSIVE SliceInt(_, _, _)
SliceInt(b, lo, hi) == IF hi < lo THEN 0 ELSE 2 * SliceInt(b, lo, hi - 1) + b[hi]

\* The significand in limbs of 11 bits, limb 0 the least significant.
Limb(m, j) ==
  SliceInt(m, Max(1, SignificandBits - 11 * j - 10), SignificandBits - 11 * j)

\* The limbs of m * n, most significant first, from limb j on.
RECURSIVE MulLimbs(_, _, _, _)
MulLimbs(m, n, j, carry) ==
  IF 11 * j >= SignificandBits THEN <<carry>>
  ELSE LET t == n * Limb(m, j) + carry
       IN Append(MulLimbs(m, n, j + 1, t \div 2048), t % 2048)

\* The bits of m * n, n a positive natural number, from its first 1 on.
MulBits(m, n) ==
  LET limbs == MulLimbs(m, n, 0, 0)
      digits == [k \in 1..(11 * Len(limbs)) |->
                   (limbs[((k - 1) \div 11) + 1] \div 2^(10 - ((k - 1) % 11))) % 2]
  IN SubSeq(digits, FirstOne(digits), Len(digits))

\* n * r of a natural number and a double: 0 * Infinity is NaN.
JsMul(n, r) ==
  CASE r.kind = "nan" -> NaN
    [] r.kind = "inf" -> IF n = 0 THEN NaN ELSE Infinity
    [] r.kind = "zero" -> Zero
    [] OTHER -> IF n = 0 THEN Zero
                ELSE RoundToDouble(MulBits(r.m, n), r.e, FALSE)

\* x < y on doubles that are not NaN.
Less(x, y) ==
  CASE x.kind = "inf" -> FALSE
    [] y.kind = "inf" -> TRUE
    [] y.kind = "zero" -> FALSE
    [] x.kind = "zero" -> TRUE
    [] OTHER ->
         \/ x.e < y.e
         \/ /\ x.e = y.e
            /\ \E k \in 1..SignificandBits :
                 /\ x.m[k] < y.m[k]
                 /\ \A j \in 1..(k - 1) : x.m[j] = y.m[j]

\* Math.min(x, y).
MathMin(x, y) ==
  IF x.kind = "nan" \/ y.kind = "nan" THEN NaN ELSE IF Less(y, x) THEN y ELSE x

\* Math.round(x), for x below 2^31: the integer part plus the first bit
\* after the binary point (ties go up).
MathRound(x) ==
  IF x.kind # "num" THEN x
  ELSE LET intLen == SignificandBits + x.e
           whole == IF intLen >= 1 THEN SliceInt(x.m, 1, intLen) ELSE 0
           half == IF intLen >= 0 /\ intLen < SignificandBits THEN x.m[intLen + 1] ELSE 0
       IN FromInt(whole + half)

\* ------------------------------------------------------------ fit calculator
\* The boxes the generators fit images into: GRID_CELL_WIDTH x
\* GRID_CELL_HEIGHT and GRID3_CELL_WIDTH x GRID3_CELL_HEIGHT (mm) in
\* generatePdf; 500 x 800 (list), MAX_W x MAX_H of the 3-column and of the
\* 2-column table (px) in generateDocx.
GRID_CELL_WIDTH == 80
GRID3_CELL_WIDTH == 53
PdfBoxes ==
  { [maxW |-> GRID_CELL_WIDTH, maxH |-> GRID_CELL_HEIGHT],
    [maxW |-> GRID3_CELL_WIDTH, maxH |-> GRID3_CELL_HEIGHT] }
DocxBoxes ==
  { [maxW |-> 500, maxH |-> 800], [maxW |-> 190, maxH |-> 150],
    [maxW |-> 290, maxH |-> 220] }

\* Sides of the image handed to calculateFitDimensions: zero, tiny, and sizes
\* the normalizer returns.
FitSides == {0, 1, 3, 1200, 1599, MAX_DIMENSION}

\* A call of calculateFitDimensions before it ran.
FitCall(impl, w, h, box) ==
  [impl |-> impl, w |-> w, h |-> h, maxW |-> box.maxW, maxH |-> box.maxH,
   done |-> FALSE, width |-> Zero, height |-> Zero]

FitCalls ==
  { FitCall("pdf", w, h, box) : w \in FitSides, h \in FitSides, box \in PdfBoxes }
  \cup { FitCall("docx", w, h, box) : w \in FitSides, h \in FitSides, box \in DocxBoxes }

NoFit == FitCall("none", 0, 0, [maxW |-> 0, maxH |-> 0])

\* calculateFitDimensions of pdfService: {0, 0} for a zero side, else the
\* sides times Math.min(maxW / originalW, maxH / originalH).
PdfFitDimensions(originalW, originalH, maxW, maxH) ==
  IF originalH = 0 \/ originalW = 0 THEN [width |-> Zero, height |-> Zero]
  ELSE LET ratio == MathMin(JsDiv(maxW, originalW), JsDiv(maxH, originalH))
       IN [width |-> JsMul(originalW, ratio), height |-> JsMul(originalH, ratio)]

\* calculateFitDimensions of docxService: no test for a zero side, the sides
\* times the ratio are rounded with Math.round.
DocxFitDimensions(originalW, originalH, maxW, maxH) ==
  LET ratio == MathMin(JsDiv(maxW, originalW), JsDiv(maxH, originalH))
  IN [width |-> MathRound(JsMul(originalW, ratio)),
      height |-> MathRound(JsMul(originalH, ratio))]

\* calculateFitDimensions of pdfService is called and returns.
PdfCalculateFit ==
  /\ fit.impl = "pdf"
  /\ ~fit.done
  /\ LET r == PdfFitDimensions(fit.w, fit.h, fit.maxW, fit.maxH)
     IN fit' = [fit EXCEPT !.done = TRUE, !.width = r.width, !.height = r.height]
  /\ UNCHANGED <<appVars, docVars, genVars, workerVars, calls, caption, download, editor, edits>>

\* calculateFitDimensions of docxService is called and returns.
DocxCalculateFit ==
  /\ fit.impl = "docx"
  /\ ~fit.done
  /\ LET r == DocxFitDimensions(fit.w, fit.h, fit.maxW, fit.maxH)
     IN fit' = [fit EXCEPT !.done = TRUE, !.width = r.width, !.height = r.height]
  /\ UNCHANGED <<appVars, docVars, genVars, workerVars, calls, caption, download, editor, edits>>

\* ----------------------------------------------------------------- captions
\* A JavaScript string is the sequence of its characters.
Digits == <<"0", "1", "2", "3", "4", "5", "6", "7", "8", "9">>

\* `${n}` of a non-negative integer.
RECURSIVE Decimal(_)
Decimal(n) ==
  IF n < 10 THEN <<Digits[n + 1]>>
  ELSE Decimal(n \div 10) \o <<Digits[(n % 10) + 1]>>

Figura == <<"F", "i", "g", "u", "r", "a", " ">>

LabelAlwaysWithColon(description, idx) == Figura \o Decimal(idx + 1) \o <<":", " ">>

\* img.description ? `Figura ${idx + 1}: ` : `Figura ${idx + 1}`
Label(description, idx) ==
  IF description # <<>> THEN Figura \o Decimal(idx + 1) \o <<":", " ">>
  ELSE Figura \o Decimal(idx + 1)

\* img.description ? `${label}${img.description}` : label
FullText(description, idx) ==
  IF description # <<>> THEN Label(description, idx) \o description
  ELSE Label(description, idx)

\* doc.splitTextToSize(text, width): one line when the text fits, else the
\* text broken at a space, which the break replaces (breakAt is the position
\* of that space, 0 when the text fits).
SplitTextToSize(text, breakAt) ==
  IF breakAt = 0 THEN <<text>>
  ELSE <<SubSeq(text, 1, breakAt - 1), SubSeq(text, breakAt + 1, Len(text))>>

\* Where a caption can break: at a space inside the text.
BreakPoints(text) == {0} \cup { p \in 2..(Len(text) - 1) : text[p] = " " }

\* Descriptions a user types: none, a blank, one word, two words.
Descriptions ==
  { <<>>, <<" ">>, <<"P", "i", "s", "o">>, <<"S", "a", "l", "a", " ", "2">> }

\* 0-based indices of images with one- and two-digit figure numbers.
CaptionIndices == {0, 8, 9, 11}

\* The caption of images[idx] before it is written; afterwards "pieces" are
\* the strings written, as text runs set one after the other ("runs") or as
\* lines set one below the other ("lines").
CaptionCall(gen, l, idx, description, breakAt) ==
  [gen |-> gen, layout |-> l, idx |-> idx, description |-> description,
   breakAt |-> breakAt, done |-> FALSE, kind |-> "runs", pieces |-> <<>>]

\* The captions written: a break only where the text has one; generateDocx
\* leaves line breaking to the word processor.
CaptionCalls ==
  UNION { { CaptionCall("pdf", l, idx, d, b) : b \in BreakPoints(FullText(d, idx)) } :
            l \in Layouts, idx \in CaptionIndices, d \in Descriptions }
  \cup { CaptionCall("doc", l, idx, d, 0) :
           l \in Layouts, idx \in CaptionIndices, d \in Descriptions }

NoCaption == CaptionCall("none", "list", 0, <<>>, 0)

Written(kind, pieces) ==
  caption' = [caption EXCEPT !.done = TRUE, !.kind = kind, !.pieces = pieces]

\* The caption of the single-column loop of generatePdf: label and
\* description side by side when the text fits in one line, the label alone
\* without description, else the lines of the split text.
PdfListCaption ==
  /\ caption.gen = "pdf"
  /\ caption.layout = "list"
  /\ ~caption.done
  /\ LET label == Label(caption.description, caption.idx)
         fullText == FullText(caption.description, caption.idx)
         captionLines == SplitTextToSize(fullText, caption.breakAt)
     IN IF caption.description # <<>> /\ Len(captionLines) = 1
        THEN Written("runs", <<label, caption.description>>)
        ELSE IF caption.description = <<>>
             THEN Written("runs", <<label>>)
             ELSE Written("lines", captionLines)
  /\ UNCHANGED <<appVars, docVars, genVars, workerVars, calls, fit, download, editor, edits>>

\* getCaptionProps and doc.text(c.lines, ...) of the 3- and 2-column loops
\* of generatePdf.
PdfGridCaption ==
  /\ caption.gen = "pdf"
  /\ caption.layout \in {"grid", "grid3"}
  /\ ~caption.done
  /\ LET text == FullText(caption.description, caption.idx)
         lines == SplitTextToSize(text, caption.breakAt)
     IN Len(lines) > 0 /\ Written("lines", lines)
  /\ UNCHANGED <<appVars, docVars, genVars, workerVars, calls, fit, download, editor, edits>>

\* The caption paragraph of the plain list of generateDocx: a bold run with
\* the label and, with a description, an italic run with the description.
DocxListCaption ==
  /\ caption.gen = "doc"
  /\ caption.layout = "list"
  /\ ~caption.done
  /\ Written("runs",
             <<Label(caption.description, caption.idx)>>
             \o (IF caption.description # <<>> THEN <<caption.description>> ELSE <<>>))
  /\ UNCHANGED <<appVars, docVars, genVars, workerVars, calls, fit, download, editor, edits>>

\* The caption paragraph of createCellContent (table layouts of generateDocx).
DocxCellCaption ==
  /\ caption.gen = "doc"
  /\ caption.layout \in {"grid", "grid3"}
  /\ ~caption.done
  /\ Written("runs",
             <<Label(caption.description, caption.idx)>>
             \o (IF caption.description # <<>> THEN <<caption.description>> ELSE <<>>))
  /\ UNCHANGED <<appVars, docVars, genVars, workerVars, calls, fit, download, editor, edits>>

\* ---------------------------------------------------------------- file name
\* Strings are sequences of UTF-16 code units; a code unit outside ASCII is
\* written by its number, "U+00F3" being o with acute accent.
Lower == <<"a", "b", "c", "d", "e", "f", "g", "h", "i", "j", "k", "l", "m", "n", "o", "p", "q", "r", "s", "t", "u", "v", "w", "x", "y", "z">>
Upper == <<"A", "B", "C", "D", "E", "F", "G", "H", "I", "J", "K", "L", "M", "N", "O", "P", "Q", "R", "S", "T", "U", "V", "W", "X", "Y", "Z">>
IsAscii(c) == Len(c) = 1

\* String.prototype.toUpperCase of one code unit: U+017F (long s) has the
\* upper case S, U+00F3 has U+00D3.
ToUpperCase(c) ==
  IF \E k \in DOMAIN Lower : Lower[k] = c
  THEN Upper[CHOOSE k \in DOMAIN Lower : Lower[k] = c]
  ELSE IF c = "U+017F" THEN "S"
  ELSE IF c = "U+00F3" THEN "U+00D3"
  ELSE c

\* Canonicalize of a regular expression with flag i and without flag u: the
\* upper case, except that a code unit outside ASCII is never mapped into
\* ASCII.
Canonicalize(c) ==
  LET cu == ToUpperCase(c)
  IN IF ~IsAscii(c) /\ IsAscii(cu) THEN c ELSE cu

InClassCaseSensitive(c) ==
  c \in { Lower[k] : k \in DOMAIN Lower } \cup { Digits[k] : k \in DOMAIN Digits }

\* The class a-z0-9 under flag i.
InClass(c) ==
  Canonicalize(c) \in { Canonicalize(Lower[k]) : k \in DOMAIN Lower }
                      \cup { Canonicalize(Digits[k]) : k \in DOMAIN Digits }

\* str.replace(/[^a-z0-9]/gi, '_')
Replace(str) == [k \in 1..Len(str) |-> IF InClass(str[k]) THEN str[k] ELSE "_"]

Instituicao == <<"I", "n", "s", "t", "i", "t", "u", "i", "c", "a", "o">>

\* data.schoolName.replace(/[^a-z0-9]/gi, '_') || 'Instituicao'
SafeName(schoolName) ==
  IF Replace(schoolName) # <<>> THEN Replace(schoolName) ELSE Instituicao

\* `Relatório_fotografico_${safeName}`
BaseName(safeName) ==
  <<"R", "e", "l", "a", "t", "U+00F3", "r", "i", "o", "_">>
  \o <<"f", "o", "t", "o", "g", "r", "a", "f", "i", "c", "o", "_">> \o safeName

\* The code units institution names are made of here: letters of both
\* cases, a digit, a space, an accented letter, the long s and half of a
\* surrogate pair.
NameUnits == {"a", "Z", "7", " ", "U+00F3", "U+017F", "U+D83D"}
SchoolNames == UNION { [1..n -> NameUnits] : n \in 0..MaxNameLen }

Downloads ==
  { [gen |-> g, schoolName |-> n, done |-> FALSE, name |-> <<>>] :
      g \in Types, n \in SchoolNames }

NoDownload == [gen |-> "none", schoolName |-> <<>>, done |-> FALSE, name |-> <<>>]

\* doc.save(`Relatório_fotografico_${safeName}.pdf`) at the end of generatePdf.
PdfSave ==
  /\ download.gen = "pdf"
  /\ ~download.done
  /\ download' = [download EXCEPT !.done = TRUE,
                    !.name = BaseName(SafeName(download.schoolName)) \o <<".", "p", "d", "f">>]
  /\ UNCHANGED <<appVars, docVars, genVars, workerVars, calls, fit, caption, editor, edits>>

\* FileSaver.saveAs(blob, `Relatório_fotografico_${safeName}.docx`) at the
\* end of generateDocx.
DocxSaveAs ==
  /\ download.gen = "doc"
  /\ ~download.done
  /\ download' = [download EXCEPT !.done = TRUE,
                    !.name = BaseName(SafeName(download.schoolName)) \o <<".", "d", "o", "c", "x">>]
  /\ UNCHANGED <<appVars, docVars, genVars, workerVars, calls, fit, caption, editor, edits>>

\* ------------------------------------------------------------------ editing
\* The files a user uploads: a photo, and a file the browser cannot decode
\* (the input accepts any image/* file).
UploadFiles ==
  { [srcW |-> 4000, srcH |-> 3000, decodable |-> TRUE],
    [srcW |-> 800, srcH |-> 600, decodable |-> FALSE] }

\* The ReportImage handleFileUpload builds for a file: description '' and
\* rotation 0 under the id generateId() returned.
NewImage(id, file) ==
  [id |-> id, srcW |-> file.srcW, srcH |-> file.srcH, decodable |-> file.decodable,
   rotation |-> 0, hasDescription |-> FALSE, lines |-> 1]

\* useState of App: no image, layout 'grid', style 'card'.  "ids" counts the
\* calls of generateId, "captured" is what the handleGenerate invoked last
\* read from its render.
NoCapture == [images |-> <<>>, layout |-> "grid", styleMode |-> "card"]
NoEdits ==
  [images |-> <<>>, layout |-> "grid", styleMode |-> "card", ids |-> 0,
   captured |-> NoCapture]

\* items.findIndex(item => item.id === id), 0-based, -1 when there is none.
FindIndex(items, id) ==
  IF \E k \in DOMAIN items : items[k].id = id
  THEN (CHOOSE k \in DOMAIN items :
          items[k].id = id /\ \A j \in 1..(k - 1) : items[j].id # id) - 1
  ELSE -1

\* The start index Array.prototype.splice works with.
SpliceStart(start, len) ==
  IF start < 0 THEN Max(len + start, 0) ELSE Min(start, len)

ArrayMoveOverwrites(array, from, to) ==
  [k \in DOMAIN array |-> IF k = to + 1 THEN array[from + 1] ELSE array[k]]

\* arrayMove(array, from, to) of @dnd-kit/sortable on a non-empty array:
\* newArray.splice(to < 0 ? newArray.length + to : to, 0,
\*                 newArray.splice(from, 1)[0]).
ArrayMove(array, from, to) ==
  LET at == SpliceStart(from, Len(array))
      moved == array[Min(at, Len(array) - 1) + 1]
      rest == SubSeq(array, 1, at) \o SubSeq(array, at + 2, Len(array))
      target == SpliceStart(IF to < 0 THEN Len(rest) + to ELSE to, Len(rest))
  IN SubSeq(rest, 1, target) \o <<moved>> \o SubSeq(rest, target + 1, Len(rest))

\* The rotation rotateImage sets: (img.rotation + 90) % 360.
NextRotationUnwrapped(rotation) == rotation + 90
NextRotation(rotation) == (rotation + 90) % 360

Edited(imgs) == editor' = [editor EXCEPT !.images = imgs]
EditorFrame == UNCHANGED <<appVars, docVars, genVars, workerVars, calls, fit, caption, download>>

\* handleFileUpload with one or two files selected.
HandleFileUpload(files) ==
  /\ Len(editor.images) + Len(files) <= MaxEditorImages
  /\ editor.ids + Len(files) <= MaxUploads
  /\ editor' = [editor EXCEPT
                  !.images = editor.images
                             \o [k \in 1..Len(files) |-> NewImage(editor.ids + k, files[k])],
                  !.ids = editor.ids + Len(files)]
  /\ EditorFrame

\* removeImage(id): prev.filter(img => img.id !== id).
RemoveImage(id) ==
  /\ \E k \in DOMAIN editor.images : editor.images[k].id = id
  /\ Edited(SelectSeq(editor.images, LAMBDA img : img.id # id))
  /\ EditorFrame

RotateImageInPlace(id) ==
  /\ \E k \in DOMAIN editor.images : editor.images[k].id = id
  /\ Edited([k \in DOMAIN editor.images |->
               IF editor.images[k].id = id
               THEN [editor.images[k] EXCEPT !.rotation = NextRotation(@)]
               ELSE editor.images[k]])
  /\ images' = [k \in DOMAIN images |->
                  IF images[k].id = id
                  THEN [images[k] EXCEPT !.rotation = NextRotation(@)]
                  ELSE images[k]]
  /\ UNCHANGED <<layout, styleMode, data, offscreen>>
  /\ UNCHANGED <<docVars, genVars, workerVars, calls, fit, caption, download>>

\* rotateImage(id): a copy of the image with the next rotation.
RotateImage(id) ==
  /\ \E k \in DOMAIN editor.images : editor.images[k].id = id
  /\ Edited([k \in DOMAIN editor.images |->
               IF editor.images[k].id = id
               THEN [editor.images[k] EXCEPT !.rotation = NextRotation(@)]
               ELSE editor.images[k]])
  /\ EditorFrame

\* updateImageDescription(id, description): a copy with the description, ''
\* or a text of two caption lines.
UpdateImageDescription(id, hasDescription, lines) ==
  /\ \E k \in DOMAIN editor.images : editor.images[k].id = id
  /\ Edited([k \in DOMAIN editor.images |->
               IF editor.images[k].id = id
               THEN [editor.images[k] EXCEPT !.hasDescription = hasDescription,
                                             !.lines = lines]
               ELSE editor.images[k]])
  /\ EditorFrame

\* handleDragEnd with the image active dropped over the image over.
HandleDragEnd(active, over) ==
  /\ \E k \in DOMAIN editor.images : editor.images[k].id = active
  /\ \E k \in DOMAIN editor.images : editor.images[k].id = over
  /\ IF active # over
     THEN Edited(ArrayMove(editor.images, FindIndex(editor.images, active),
                           FindIndex(editor.images, over)))
     ELSE UNCHANGED editor
  /\ EditorFrame

\* setLayout(l) and setStyleMode(s) of the layout and style buttons.
SetLayout(l) ==
  /\ editor' = [editor EXCEPT !.layout = l]
  /\ EditorFrame

SetStyleMode(sm) ==
  /\ editor' = [editor EXCEPT !.styleMode = sm]
  /\ EditorFrame

EditNext ==
  \/ \E f \in UploadFiles : HandleFileUpload(<<f>>)
  \/ \E f \in UploadFiles : HandleFileUpload(<<f, f>>)
  \/ \E id \in 1..MaxUploads : RemoveImage(id)
  \/ \E id \in 1..MaxUploads : RotateImage(id)
  \/ \E id \in 1..MaxUploads : UpdateImageDescription(id, FALSE, 1)
  \/ \E id \in 1..MaxUploads : UpdateImageDescription(id, TRUE, 2)
  \/ \E a \in 1..MaxUploads, o \in 1..MaxUploads : HandleDragEnd(a, o)

\* ------------------------------------------------------ image normalization
ScaledSizeCapsWidthOnly(w, h) ==
  IF w > MAX_DIMENSION
  THEN [width |-> MAX_DIMENSION, height |-> RoundDiv(h * MAX_DIMENSION, w)]
  ELSE [width |-> w, height |-> h]

\* WORKER_CODE: the scaled size, capped at MAX_DIMENSION on the larger side.
\* ratio = min(MAX/width, MAX/height) is MAX over the larger dimension.
ScaledSize(w, h) ==
  IF w > MAX_DIMENSION \/ h > MAX_DIMENSION
  THEN [width |-> RoundDiv(w * MAX_DIMENSION, Max(w, h)),
        height |-> RoundDiv(h * MAX_DIMENSION, Max(w, h))]
  ELSE [width |-> w, height |-> h]

CanvasSizeSwapsOnlyAt90(w, h, rotation) ==
  LET s == ScaledSize(w, h)
  IN [width |-> IF rotation = 90 THEN s.height ELSE s.width,
      height |-> IF rotation = 90 THEN s.width ELSE s.height]

\* WORKER_CODE: the canvas size, swapped when rotation % 180 # 0.
CanvasSize(w, h, rotation) ==
  LET s == ScaledSize(w, h)
      isRotated90 == rotation % 180 # 0
  IN [width |-> IF isRotated90 THEN s.height ELSE s.width,
      height |-> IF isRotated90 THEN s.width ELSE s.height]

\* processImageOnMainThread: the same scaling, written a second time.
MainThreadScaledSize(w, h) ==
  IF w > MAX_DIMENSION \/ h > MAX_DIMENSION
  THEN [width |-> RoundDiv(w * MAX_DIMENSION, Max(w, h)),
        height |-> RoundDiv(h * MAX_DIMENSION, Max(w, h))]
  ELSE [width |-> w, height |-> h]

\* processImageOnMainThread: canvas.width and canvas.height.
MainThreadCanvasSize(w, h, rotation) ==
  LET s == MainThreadScaledSize(w, h)
      isRotated90 == rotation % 180 # 0
  IN [width |-> IF isRotated90 THEN s.height ELSE s.width,
      height |-> IF isRotated90 THEN s.width ELSE s.height]

\* ------------------------------------------------- processImage and worker
\* The promise processImage returns: pending until worker.onmessage settles it.
\* "by" is the number of the request whose completion message settled it
\* (0 while pending).
PendingPromise == [state |-> "pending", width |-> 0, height |-> 0, by |-> 0]

\* pendingRequests.set(id, {resolve, reject})
MapSet(m, key, val) ==
  [x \in DOMAIN m \cup {key} |-> IF x = key THEN val ELSE m[x]]

\* pendingRequests.delete(id)
MapDelete(m, key) == [x \in DOMAIN m \ {key} |-> m[x]]

\* processImage(file, rotation).  The new promise is number Len(promises) + 1.
\* With OffscreenCanvas: draws the id from Math.random(), stores the promise's
\* callbacks under it and posts the request to the worker.  Without: calls
\* processImageOnMainThread, which starts loading the file into an Image.
ProcessImage(img) ==
  LET req == Len(promises) + 1 IN
  /\ promises' = Append(promises, PendingPromise)
  /\ IF offscreen
     THEN /\ \E id \in Ids :
               /\ pendingRequests' = MapSet(pendingRequests, id, req)
               /\ workerInbox' = workerInbox \cup {[id |-> id, req |-> req, img |-> img]}
          /\ UNCHANGED <<mainInbox, mainThreadJobs>>
     ELSE /\ mainThreadJobs' = mainThreadJobs \cup {[req |-> req, img |-> img, stage |-> "load"]}
          /\ UNCHANGED <<pendingRequests, workerInbox, mainInbox>>

\* A canvas without pixels: convertToBlob rejects and toBlob passes null.
NoPixels(c) == c.width = 0 \/ c.height = 0

\* The completion message the worker posts for a request: the canvas size on
\* success, the error message when createImageBitmap or convertToBlob fails.
WorkerReply(m) ==
  IF m.img.decodable
     /\ ~NoPixels(CanvasSize(m.img.srcW, m.img.srcH, m.img.rotation))
  THEN LET c == CanvasSize(m.img.srcW, m.img.srcH, m.img.rotation)
       IN [id |-> m.id, req |-> m.req, error |-> FALSE,
           width |-> c.width, height |-> c.height]
  ELSE [id |-> m.id, req |-> m.req, error |-> TRUE, width |-> 0, height |-> 0]

\* self.onmessage of the worker runs to its postMessage, in the try block or
\* in the catch block.  Requests are handled as independent async calls, so
\* any request in the inbox may complete next.
WorkerPostsResult(m) ==
  /\ m \in workerInbox
  /\ workerInbox' = workerInbox \ {m}
  /\ mainInbox' = mainInbox \cup {WorkerReply(m)}
  /\ UNCHANGED <<promises, pendingRequests, mainThreadJobs>>
  /\ UNCHANGED <<appVars, docVars, genVars, callVars>>

\* A worker-level error: the worker raises an error event instead of posting
\* a completion; worker.onerror only logs it.
WorkerError(m) ==
  /\ m \in workerInbox
  /\ workerInbox' = workerInbox \ {m}
  /\ UNCHANGED <<promises, pendingRequests, mainInbox, mainThreadJobs>>
  /\ UNCHANGED <<appVars, docVars, genVars, callVars>>

\* resolve / reject of a promise: only the first call has an effect.
Settle(ps, req, m) ==
  IF ps[req].state # "pending" THEN ps
  ELSE [ps EXCEPT ![req] =
          [state |-> IF m.error THEN "rejected" ELSE "resolved",
           width |-> m.width, height |-> m.height, by |-> m.req]]

\* worker.onmessage on the main thread.
OnMessage(m) ==
  /\ m \in mainInbox
  /\ mainInbox' = mainInbox \ {m}
  /\ IF m.id \in DOMAIN pendingRequests
     THEN /\ promises' = Settle(promises, pendingRequests[m.id], m)
          /\ pendingRequests' = MapDelete(pendingRequests, m.id)
     ELSE UNCHANGED <<promises, pendingRequests>>
  /\ UNCHANGED <<workerInbox, mainThreadJobs>>
  /\ UNCHANGED <<appVars, docVars, genVars, callVars>>

\* img.onload of processImageOnMainThread: sizes and draws the canvas and
\* calls canvas.toBlob (getContext('2d') of a fresh canvas is not null).
ImgOnLoad(j) ==
  /\ j \in mainThreadJobs
  /\ j.stage = "load"
  /\ j.img.decodable
  /\ mainThreadJobs' = (mainThreadJobs \ {j}) \cup {[j EXCEPT !.stage = "blob"]}
  /\ UNCHANGED <<promises, pendingRequests, workerInbox, mainInbox>>
  /\ UNCHANGED <<appVars, docVars, genVars, callVars>>

\* img.onerror of processImageOnMainThread: reject("Failed to load image").
ImgOnError(j) ==
  /\ j \in mainThreadJobs
  /\ j.stage = "load"
  /\ ~j.img.decodable
  /\ mainThreadJobs' = mainThreadJobs \ {j}
  /\ promises' = Settle(promises, j.req,
                        [error |-> TRUE, width |-> 0, height |-> 0, req |-> j.req])
  /\ UNCHANGED <<pendingRequests, workerInbox, mainInbox>>
  /\ UNCHANGED <<appVars, docVars, genVars, callVars>>

\* The canvas.toBlob callback: the blob is read with a FileReader; a null
\* blob (a canvas without pixels) rejects with "Canvas to Blob failed".
ToBlobCallback(j) ==
  /\ j \in mainThreadJobs
  /\ j.stage = "blob"
  /\ IF NoPixels(MainThreadCanvasSize(j.img.srcW, j.img.srcH, j.img.rotation))
     THEN /\ mainThreadJobs' = mainThreadJobs \ {j}
          /\ promises' = Settle(promises, j.req,
                                [error |-> TRUE, width |-> 0, height |-> 0, req |-> j.req])
     ELSE /\ mainThreadJobs' = (mainThreadJobs \ {j}) \cup {[j EXCEPT !.stage = "read"]}
          /\ UNCHANGED promises
  /\ UNCHANGED <<pendingRequests, workerInbox, mainInbox>>
  /\ UNCHANGED <<appVars, docVars, genVars, callVars>>

\* reader.onload: resolve({buffer, width: canvas.width, height: canvas.height}).
ReaderOnLoad(j) ==
  /\ j \in mainThreadJobs
  /\ j.stage = "read"
  /\ mainThreadJobs' = mainThreadJobs \ {j}
  /\ LET c == MainThreadCanvasSize(j.img.srcW, j.img.srcH, j.img.rotation)
     IN promises' = Settle(promises, j.req,
                           [error |-> FALSE, width |-> c.width, height |-> c.height,
                            req |-> j.req])
  /\ UNCHANGED <<pendingRequests, workerInbox, mainInbox>>
  /\ UNCHANGED <<appVars, docVars, genVars, callVars>>

MainThreadNext ==
  \/ \E j \in mainThreadJobs : ImgOnLoad(j)
  \/ \E j \in mainThreadJobs : ImgOnError(j)
  \/ \E j \in mainThreadJobs : ToBlobCallback(j)
  \/ \E j \in mainThreadJobs : ReaderOnLoad(j)

WorkerNext ==
  \/ \E m \in workerInbox : WorkerPostsResult(m)
  \/ \E m \in workerInbox : WorkerError(m)
  \/ \E m \in mainInbox : OnMessage(m)

\* ------------------------------------------------------------ layout engine
ColumnsGrid3AsGrid(l) == IF l = "list" THEN 1 ELSE 2

\* The loop step: i += 1, i += 2 or i += 3.
Columns(l) == IF l = "list" THEN 1 ELSE IF l = "grid3" THEN 3 ELSE 2

FigureNumberRepacked(idx) == idx + 1 - Cardinality({f \in skipped : f <= idx})

\* The label index of images[idx] (idx is the 0-based array index):
\* `Figura ${idx + 1}`.
FigureNumber(idx) == idx + 1

\* The 0-based indices of img1, img2, img3 of the row starting at j: the
\* members that exist in the array.
RowMembers(j) == { x \in j..(j + Columns(layout) - 1) : x < Len(images) }

\* The array indices of the images a row draws, in cell order.
RowImages(j) == [x \in 1..Cardinality(RowMembers(j)) |-> j + x - 1]

\* The figure numbers generatePdf writes under the cells of a row:
\* getCaptionProps(img1, i), (img2, i + 1), (img3, i + 2).
RowFigures(j) ==
  [x \in 1..Cardinality(RowMembers(j)) |-> FigureNumber(j + x - 1)]

DocxRowFiguresByRowCount(j) ==
  [x \in 1..Cardinality(RowMembers(j)) |-> Len(rows) * Columns(layout) + x]

\* The figure numbers generateDocx writes: createCellContent(p1, img1, i),
\* (p2, img2, i + 1), (p3, img3, i + 2).
DocxRowFigures(j) ==
  [x \in 1..Cardinality(RowMembers(j)) |-> FigureNumber(j + x - 1)]

HeaderCursorFromLastRun(d) == Max(cursorY, Mm(MARGIN_Y))

\* cursorY after the header and the comments section of generatePdf.
HeaderCursor(d) ==
  Mm(MARGIN_Y) + Mm(12) + Mm(8) + (IF d.hasAddress THEN Mm(8) ELSE 0) + Mm(8) + Mm(15)
  + (IF d.commentLines > 0 THEN Mm(5) + d.commentLines * Mm(4) + Mm(8) ELSE Mm(5))

\* blockHeight of the single-column loop of generatePdf.
ListBlockHeight(p, img) ==
  LET imgHeight == (p.height * Mm(LIST_IMG_WIDTH)) \div p.width
      captionHeight == img.lines * Mm(5)
      padding == IF styleMode # "simple" THEN Mm(5) ELSE 0
      contentHeight == imgHeight
                       + (IF captionHeight > 0 THEN captionHeight + Mm(5) ELSE 0)
                       + Mm(2)
  IN contentHeight + padding * 2

\* getCaptionProps(img, idx).height of the 3- and 2-column loops.
CaptionHeight(img) ==
  IF layout = "grid3" THEN img.lines * GRID3_LINE_HALF_MM ELSE img.lines * Mm(4)

RECURSIVE MaxOver(_, _)
MaxOver(S, f) ==
  IF S = {} THEN 0
  ELSE LET x == CHOOSE y \in S : TRUE
       IN Max(f[x], MaxOver(S \ {x}, f))

GridCellHeightFromFirstCaption(j) ==
  LET maxTextHeight == CaptionHeight(images[j + 1])
      padding == IF styleMode # "simple"
                 THEN (IF layout = "grid3" THEN Mm(3) ELSE Mm(4)) ELSE 0
      cell == IF layout = "grid3" THEN Mm(GRID3_CELL_HEIGHT) ELSE Mm(GRID_CELL_HEIGHT)
  IN cell + maxTextHeight + Mm(8) + padding * 2

\* cellHeight of the 3- and 2-column loops: Math.max over c1, c2, c3, a
\* missing member counting 0.
GridCellHeight(j) ==
  LET maxTextHeight ==
        MaxOver(RowMembers(j), [x \in RowMembers(j) |-> CaptionHeight(images[x + 1])])
      padding == IF styleMode # "simple"
                 THEN (IF layout = "grid3" THEN Mm(3) ELSE Mm(4)) ELSE 0
      cell == IF layout = "grid3" THEN Mm(GRID3_CELL_HEIGHT) ELSE Mm(GRID_CELL_HEIGHT)
  IN cell + maxTextHeight + Mm(8) + padding * 2

\* The row height generatePdf computes for the row starting at j, from the
\* normalized sizes ps of its members.
RowHeight(j, ps) ==
  IF layout = "list" THEN ListBlockHeight(ps[1], images[j + 1]) ELSE GridCellHeight(j)

\* cursorY += blockHeight + 4 / cellHeight + 3
RowSpacing == IF layout = "list" THEN Mm(4) ELSE Mm(3)

NeedsPageBreakAtContentHeight(y, h) == y + h > Mm(PAGE_HEIGHT - MARGIN_Y - MARGIN_BOTTOM)

\* if (cursorY + rowHeight > PAGE_HEIGHT - MARGIN_BOTTOM)
NeedsPageBreak(y, h) == y + h > Mm(PAGE_HEIGHT - MARGIN_BOTTOM)

PdfRowWithoutCursorReset(j, ps) ==
  LET h == RowHeight(j, ps)
      brk == NeedsPageBreak(cursorY, h)
  IN [figs |-> RowFigures(j),
      imgs |-> RowImages(j),
      top |-> cursorY,
      height |-> h,
      page |-> IF brk THEN pages + 1 ELSE pages]

\* The row generatePdf draws: doc.addPage() and cursorY = MARGIN_Y on
\* overflow, then the images and captions at cursorY.
PdfRow(j, ps) ==
  LET h == RowHeight(j, ps)
      brk == NeedsPageBreak(cursorY, h)
  IN [figs |-> RowFigures(j),
      imgs |-> RowImages(j),
      top |-> IF brk THEN Mm(MARGIN_Y) ELSE cursorY,
      height |-> h,
      page |-> IF brk THEN pages + 1 ELSE pages]

\* The table row (or, for the plain list, the image and caption paragraphs)
\* generateDocx pushes; the flow format paginates by itself.
DocxRow(j, ps) ==
  [figs |-> DocxRowFigures(j), imgs |-> RowImages(j),
   top |-> 0, height |-> 0, page |-> 0]

\* What a generator does with a rejected processImage inside the row's try
\* block: the catch logs it and the members of the row are not rendered.
FiguresLostOnReject(j) == { FigureNumber(x) : x \in RowMembers(j) }

RowRethrowsRejection == FALSE

\* Every layout loop wraps the row in try { ... } catch (e) { console.error }.
RowCatchesRejection == TRUE

RowsOf(rs) == [x \in 1..Len(rs) |-> rs[x].figs]

\* The page each row of the document was drawn on (0 in the flow format).
PagesOf(rs) == [x \in 1..Len(rs) |-> rs[x].page]

\* ------------------------------------------------------------ generation
Idle == [isGenerating |-> FALSE, message |-> ""]
Generating(type) ==
  [isGenerating |-> TRUE,
   message |-> IF type = "doc" THEN "Gerando DOCX..." ELSE "Gerando PDF..."]
Failed == [isGenerating |-> FALSE, message |-> "Erro ao gerar arquivo. Tente novamente."]

DeliversAlways(how) == TRUE

\* Whether the save step hands a file to the user: FileSaver.saveAs runs only
\* after Packer.toBlob resolved, doc.save only when no step before it threw.
\* how is "saved", "packagingError" or "imageError".
Delivers(how) == how = "saved"

\* The end of generateDocx / generatePdf and the continuation of the
\* setTimeout callback of handleGenerate: the file is saved and the status
\* reset, or the catch block sets the failure message.
Complete(how, rs, sk, pg) ==
  /\ artifacts' = IF Delivers(how)
                  THEN Append(artifacts, [gen |-> generations, type |-> genType,
                                          rows |-> RowsOf(rs), skipped |-> sk,
                                          pages |-> pg, rowPages |-> PagesOf(rs)])
                  ELSE artifacts
  /\ outcome' = how
  /\ status' = IF how = "saved" THEN Idle ELSE Failed
  /\ pc' = "idle"
  /\ UNCHANGED <<errorModal, genType, generations>>

ButtonAlwaysEnabled == TRUE

\* disabled={status.isGenerating} of the generate buttons and of the example
\* button: a click reaches the handler only while it is false.
ButtonEnabled == ~status.isGenerating

\* handleGenerate with an empty image list: only the error modal opens.
HandleGenerateNoImages ==
  /\ ButtonEnabled
  /\ images = <<>>
  /\ errorModal' = TRUE
  /\ UNCHANGED <<status, pc, genType, generations, i, got, awaiting, outcome, artifacts>>
  /\ UNCHANGED <<appVars, docVars, workerVars, callVars>>

HandleGenerateWithoutCheck(type) ==
  /\ ButtonEnabled
  /\ generations < MaxGenerations
  /\ status' = Generating(type)
  /\ pc' = "timer"
  /\ genType' = type
  /\ generations' = generations + 1
  /\ outcome' = "none"
  /\ UNCHANGED <<errorModal, i, got, awaiting, artifacts>>
  /\ UNCHANGED <<appVars, docVars, workerVars, callVars>>

\* handleGenerate(type), reached through a generate button, which is
\* disabled while status.isGenerating: sets the status and schedules the
\* generator with setTimeout.
HandleGenerate(type) ==
  /\ ButtonEnabled
  /\ generations < MaxGenerations
  /\ images # <<>>
  /\ status' = Generating(type)
  /\ pc' = "timer"
  /\ genType' = type
  /\ generations' = generations + 1
  /\ outcome' = "none"
  /\ UNCHANGED <<errorModal, i, got, awaiting, artifacts>>
  /\ UNCHANGED <<appVars, docVars, workerVars, callVars>>

\* The setTimeout callback starts the generator, which draws the header and
\* runs to its first await: processImage of images[0].
TimerFires ==
  /\ pc = "timer"
  /\ cursorY' = IF genType = "pdf" THEN HeaderCursor(data) ELSE 0
  /\ pages' = IF genType = "pdf" THEN 1 ELSE 0
  /\ rows' = <<>>
  /\ skipped' = {}
  /\ i' = 0
  /\ got' = <<>>
  /\ ProcessImage(images[1])
  /\ awaiting' = Len(promises) + 1
  /\ pc' = "await"
  /\ UNCHANGED <<status, errorModal, genType, generations, outcome, artifacts>>
  /\ UNCHANGED <<appVars, callVars>>

\* After a row was drawn or skipped the loop goes on with the row starting
\* at j (it runs to the next await), or leaves the loop: generatePdf saves
\* at once, generateDocx awaits Packer.toBlob.
Advance(j, rs, sk, y, pg) ==
  /\ rows' = rs
  /\ skipped' = sk
  /\ cursorY' = y
  /\ pages' = pg
  /\ i' = j
  /\ got' = <<>>
  /\ \/ /\ j < Len(images)
        /\ ProcessImage(images[j + 1])
        /\ awaiting' = Len(promises) + 1
        /\ pc' = "await"
        /\ UNCHANGED <<status, errorModal, genType, generations, outcome, artifacts>>
     \/ /\ j >= Len(images)
        /\ genType = "pdf"
        /\ \E how \in {"saved", "packagingError"} : Complete(how, rs, sk, pg)
        /\ awaiting' = 0
        /\ UNCHANGED workerVars
     \/ /\ j >= Len(images)
        /\ genType = "doc"
        /\ pc' = "packing"
        /\ awaiting' = 0
        /\ UNCHANGED <<status, errorModal, genType, generations, outcome, artifacts>>
        /\ UNCHANGED workerVars

ResumeRejectedAfterPageBreak ==
  /\ pc = "await"
  /\ promises[awaiting].state = "rejected"
  /\ Advance(i + Columns(layout), rows, skipped \cup FiguresLostOnReject(i),
             IF genType = "pdf" THEN Mm(MARGIN_Y) ELSE cursorY,
             IF genType = "pdf" THEN pages + 1 ELSE pages)
  /\ UNCHANGED <<appVars, callVars>>

\* The awaited processImage rejected: the catch block of the row logs the
\* error and the loop continues with the next row.  Without a catch the
\* rejection would leave the generator and reach handleGenerate.
ResumeRejected ==
  /\ pc = "await"
  /\ promises[awaiting].state = "rejected"
  /\ IF RowCatchesRejection
     THEN Advance(i + Columns(layout), rows, skipped \cup FiguresLostOnReject(i),
                  cursorY, pages)
     ELSE /\ Complete("imageError", rows, skipped, pages)
          /\ UNCHANGED <<i, got, awaiting>>
          /\ UNCHANGED <<docVars, workerVars>>
  /\ UNCHANGED <<appVars, callVars>>

ResumeNextMemberWithoutAwait ==
  /\ pc = "await"
  /\ (i + Len(got) + 1) \in RowMembers(i)
  /\ got' = Append(got, [width |-> promises[awaiting].width,
                         height |-> promises[awaiting].height])
  /\ ProcessImage(images[i + Len(got) + 2])
  /\ awaiting' = Len(promises) + 1
  /\ UNCHANGED <<status, errorModal, pc, genType, generations, i, outcome, artifacts>>
  /\ UNCHANGED <<appVars, docVars, callVars>>

\* The awaited processImage resolved and the row has another member: its
\* processImage is awaited next.
ResumeNextMember ==
  /\ pc = "await"
  /\ promises[awaiting].state = "resolved"
  /\ (i + Len(got) + 1) \in RowMembers(i)
  /\ got' = Append(got, [width |-> promises[awaiting].width,
                         height |-> promises[awaiting].height])
  /\ ProcessImage(images[i + Len(got) + 2])
  /\ awaiting' = Len(promises) + 1
  /\ UNCHANGED <<status, errorModal, pc, genType, generations, i, outcome, artifacts>>
  /\ UNCHANGED <<appVars, docVars, callVars>>

\* The awaited processImage resolved and it was the last member of the row:
\* the row is placed and the loop goes on.
ResumeDrawRow ==
  /\ pc = "await"
  /\ promises[awaiting].state = "resolved"
  /\ (i + Len(got) + 1) \notin RowMembers(i)
  /\ LET ps == Append(got, [width |-> promises[awaiting].width,
                            height |-> promises[awaiting].height])
         row == IF genType = "pdf" THEN PdfRow(i, ps) ELSE DocxRow(i, ps)
     IN Advance(i + Columns(layout), Append(rows, row), skipped,
                IF genType = "pdf" THEN row.top + row.height + RowSpacing ELSE cursorY,
                row.page)
  /\ UNCHANGED <<appVars, callVars>>

\* Packer.toBlob(doc) settles: FileSaver.saveAs on success, the rejection
\* reaches the catch block of handleGenerate otherwise.
PackerToBlobSettles ==
  /\ pc = "packing"
  /\ \E how \in {"saved", "packagingError"} : Complete(how, rows, skipped, pages)
  /\ UNCHANGED <<i, got, awaiting>>
  /\ UNCHANGED <<appVars, docVars, workerVars, callVars>>

\* A direct caller of the exported processImage.
ClientCall(img) ==
  /\ Len(calls) < MaxCalls
  /\ calls' = Append(calls, img)
  /\ ProcessImage(img)
  /\ UNCHANGED <<appVars, docVars, genVars, fit, caption, download, editor, edits>>

\* const TARGET_COUNT = 8 of handleGenerateExample.
TARGET_COUNT == 8

\* The status handleGenerateExample sets while it downloads.
Downloading == [isGenerating |-> TRUE, message |-> "Baixando 8 imagens de exemplo..."]

\* The images handleGenerateExample builds: description '' and rotation 0.
ExamplePhotos == { p \in Photos : ~p.hasDescription /\ p.rotation = 0 }

\* handleGenerateExample up to its first await: returns at once while
\* status.isGenerating, else fills the header (an address and comments of two
\* paragraphs and an empty line, 3 or 4 lines once split) and sets the status.
HandleGenerateExample ==
  /\ ButtonEnabled
  /\ ~status.isGenerating
  /\ \E n \in 3..4 : data' = [hasAddress |-> TRUE, commentLines |-> n]
  /\ status' = Downloading
  /\ pc' = "example"
  /\ UNCHANGED <<errorModal, genType, generations, i, got, awaiting, outcome, artifacts>>
  /\ UNCHANGED <<images, layout, styleMode, offscreen>>
  /\ UNCHANGED <<docVars, workerVars, callVars>>

\* The rest of handleGenerateExample, after the downloads: setImages with
\* TARGET_COUNT images (the downloaded ones and their clones) or with none
\* when every download failed, and the finally block resets the status.
ExampleSettles ==
  /\ pc = "example"
  /\ \/ images' = <<>>
     \/ \E p \in ExamplePhotos : images' = [x \in 1..TARGET_COUNT |-> p]
  /\ status' = Idle
  /\ pc' = "idle"
  /\ UNCHANGED <<errorModal, genType, generations, i, got, awaiting, outcome, artifacts>>
  /\ UNCHANGED <<layout, styleMode, data, offscreen>>
  /\ UNCHANGED <<docVars, workerVars, callVars>>

\* ------------------------------------------------------------ specifications
InitGen ==
  /\ status = Idle
  /\ errorModal = FALSE
  /\ pc = "idle"
  /\ genType = "doc"
  /\ generations = 0
  /\ i = 0
  /\ got = <<>>
  /\ awaiting = 0
  /\ cursorY = 0
  /\ pages = 0
  /\ rows = <<>>
  /\ skipped = {}
  /\ outcome = "none"
  /\ artifacts = <<>>

InitWorker ==
  /\ promises = <<>>
  /\ pendingRequests = <<>>
  /\ workerInbox = {}
  /\ mainInbox = {}
  /\ mainThreadJobs = {}
  /\ calls = <<>>
  /\ fit = NoFit
  /\ caption = NoCaption
  /\ download = NoDownload
  /\ editor = NoEdits
  /\ edits = 0

Init ==
  /\ images \in ImageLists
  /\ layout \in Layouts
  /\ styleMode \in Styles
  /\ data \in ReportDatas
  /\ offscreen \in BOOLEAN
  /\ InitGen
  /\ InitWorker

Next ==
  \/ HandleGenerateNoImages
  \/ \E type \in Types : HandleGenerate(type)
  \/ TimerFires
  \/ ResumeRejected
  \/ ResumeNextMember
  \/ ResumeDrawRow
  \/ PackerToBlobSettles
  \/ WorkerNext
  \/ MainThreadNext

Spec == Init /\ [][Next]_vars

\* A specification of the exported processImage under concurrent callers on
\* the worker strategy: no generation runs, the calls are issued directly.
InitCalls ==
  /\ images = <<>>
  /\ layout = "list"
  /\ styleMode = "simple"
  /\ data = [hasAddress |-> TRUE, commentLines |-> 0]
  /\ offscreen = TRUE
  /\ InitGen
  /\ InitWorker

CallsNext ==
  \/ \E img \in Photos : ClientCall(img)
  \/ WorkerNext

WorkerSpec == InitCalls /\ [][CallsNext]_vars

\* calculateFitDimensions alone: one call per behaviour, of either
\* implementation, on every input of FitCalls.
InitFit ==
  /\ images = <<>>
  /\ layout = "list"
  /\ styleMode = "simple"
  /\ data = [hasAddress |-> TRUE, commentLines |-> 0]
  /\ offscreen = TRUE
  /\ InitGen
  /\ promises = <<>>
  /\ pendingRequests = <<>>
  /\ workerInbox = {}
  /\ mainInbox = {}
  /\ mainThreadJobs = {}
  /\ calls = <<>>
  /\ fit \in FitCalls
  /\ caption = NoCaption
  /\ download = NoDownload
  /\ editor = NoEdits
  /\ edits = 0

FitNext ==
  \/ PdfCalculateFit
  \/ DocxCalculateFit

FitSpec == InitFit /\ [][FitNext]_vars

\* The caption of one figure alone: one caption per behaviour, of either
\* generator, in every layout.
InitCaption ==
  /\ images = <<>>
  /\ layout = "list"
  /\ styleMode = "simple"
  /\ data = [hasAddress |-> TRUE, commentLines |-> 0]
  /\ offscreen = TRUE
  /\ InitGen
  /\ promises = <<>>
  /\ pendingRequests = <<>>
  /\ workerInbox = {}
  /\ mainInbox = {}
  /\ mainThreadJobs = {}
  /\ calls = <<>>
  /\ fit = NoFit
  /\ caption \in CaptionCalls
  /\ download = NoDownload
  /\ editor = NoEdits
  /\ edits = 0

CaptionNext ==
  \/ PdfListCaption
  \/ PdfGridCaption
  \/ DocxListCaption
  \/ DocxCellCaption

CaptionSpec == InitCaption /\ [][CaptionNext]_vars

\* The file name alone: one saved file per behaviour, of either generator,
\* for every institution name of SchoolNames.
InitDownload ==
  /\ images = <<>>
  /\ layout = "list"
  /\ styleMode = "simple"
  /\ data = [hasAddress |-> TRUE, commentLines |-> 0]
  /\ offscreen = TRUE
  /\ InitGen
  /\ promises = <<>>
  /\ pendingRequests = <<>>
  /\ workerInbox = {}
  /\ mainInbox = {}
  /\ mainThreadJobs = {}
  /\ calls = <<>>
  /\ fit = NoFit
  /\ caption = NoCaption
  /\ download \in Downloads
  /\ editor = NoEdits
  /\ edits = 0

DownloadNext ==
  \/ PdfSave
  \/ DocxSaveAs

DownloadSpec == InitDownload /\ [][DownloadNext]_vars

\* generatePdf alone, on the main-thread strategy, under headers of several
\* lengths: without comments and with comments of PdfCommentLines lines, so
\* that the first row starts at several heights of the page.
PdfCommentLines == {0, 24, 32}
PdfReportDatas == { [hasAddress |-> FALSE, commentLines |-> n] : n \in PdfCommentLines }

InitPdf ==
  /\ images \in ImageLists
  /\ layout \in Layouts
  /\ styleMode \in Styles
  /\ data \in PdfReportDatas
  /\ offscreen = FALSE
  /\ InitGen
  /\ InitWorker

PdfNext ==
  \/ HandleGenerateNoImages
  \/ HandleGenerate("pdf")
  \/ TimerFires
  \/ ResumeRejected
  \/ ResumeNextMember
  \/ ResumeDrawRow
  \/ MainThreadNext

PdfSpec == InitPdf /\ [][PdfNext]_vars

\* The editing handlers alone, from the initial state of App: lists of at
\* most MaxEditorImages images out of at most MaxUploads uploaded files.
InitEdit ==
  /\ images = <<>>
  /\ layout = "grid"
  /\ styleMode = "card"
  /\ data = [hasAddress |-> TRUE, commentLines |-> 0]
  /\ offscreen = TRUE
  /\ InitGen
  /\ InitWorker

EditSpec == InitEdit /\ [][EditNext /\ UNCHANGED edits]_vars

\* Editing beside generation: from a list of two uploaded images, the second
\* turned and described, the user makes up to MaxEdits edits while a
\* generation is scheduled or running; the next generation starts from the
\* edited list.
InitLive ==
  /\ images = <<>>
  /\ layout = "grid"
  /\ styleMode = "card"
  /\ data = [hasAddress |-> TRUE, commentLines |-> 0]
  /\ offscreen = TRUE
  /\ InitGen
  /\ promises = <<>>
  /\ pendingRequests = <<>>
  /\ workerInbox = {}
  /\ mainInbox = {}
  /\ mainThreadJobs = {}
  /\ calls = <<>>
  /\ fit = NoFit
  /\ caption = NoCaption
  /\ download = NoDownload
  /\ \E f \in UploadFiles :
       editor = [NoEdits EXCEPT
                   !.images = <<NewImage(1, f),
                                [NewImage(2, f) EXCEPT !.rotation = 90,
                                                       !.hasDescription = TRUE,
                                                       !.lines = 2]>>,
                   !.ids = 2]
  /\ edits = 0

\* handleGenerate(type) of the current render: it reads images, layout and
\* styleMode of that render and passes them to the generator in the
\* setTimeout callback.
HandleGenerateOfRender(type) ==
  /\ ButtonEnabled
  /\ generations < MaxLiveGenerations
  /\ IF editor.images = <<>>
     THEN /\ errorModal' = TRUE
          /\ UNCHANGED <<status, pc, genType, generations, outcome>>
          /\ UNCHANGED <<images, layout, styleMode, editor>>
     ELSE /\ images' = editor.images
          /\ layout' = editor.layout
          /\ styleMode' = editor.styleMode
          /\ editor' = [editor EXCEPT !.captured = [images |-> editor.images,
                                                    layout |-> editor.layout,
                                                    styleMode |-> editor.styleMode]]
          /\ status' = Generating(type)
          /\ pc' = "timer"
          /\ genType' = type
          /\ generations' = generations + 1
          /\ outcome' = "none"
          /\ UNCHANGED errorModal
  /\ UNCHANGED <<i, got, awaiting, artifacts, data, offscreen>>
  /\ UNCHANGED <<docVars, workerVars, calls, fit, caption, download, edits>>

EditBesideGeneration ==
  /\ pc # "idle"
  /\ edits < MaxEdits
  /\ edits' = edits + 1
  /\ \/ EditNext
     \/ \E l \in Layouts : SetLayout(l)
     \/ \E sm \in Styles : SetStyleMode(sm)

LiveNext ==
  \/ \E type \in Types : HandleGenerateOfRender(type)
  \/ EditBesideGeneration
  \/ TimerFires
  \/ ResumeRejected
  \/ ResumeNextMember
  \/ ResumeDrawRow
  \/ PackerToBlobSettles
  \/ WorkerNext

LiveSpec == InitLive /\ [][LiveNext]_vars

\* A single direct processImage call per behaviour, on either strategy, on
\* every source of Sources.
SingleCall(img) ==
  /\ calls = <<>>
  /\ ClientCall(img)

InitNormalizer ==
  /\ images = <<>>
  /\ layout = "list"
  /\ styleMode = "simple"
  /\ data = [hasAddress |-> TRUE, commentLines |-> 0]
  /\ offscreen \in BOOLEAN
  /\ InitGen
  /\ InitWorker

NormalizerNext ==
  \/ \E img \in Sources : SingleCall(img)
  \/ WorkerNext
  \/ MainThreadNext

NormalizerSpec == InitNormalizer /\ [][NormalizerNext]_vars

\* A session in which the user also activates the example control: the
\* report starts empty or with one photo.
InitSession ==
  /\ images \in { l \in ImageLists : Len(l) <= 1 }
  /\ layout \in Layouts
  /\ styleMode = "card"
  /\ data \in ReportDatas
  /\ offscreen \in BOOLEAN
  /\ InitGen
  /\ InitWorker

SessionNext ==
  \/ Next
  \/ HandleGenerateExample
  \/ ExampleSettles

SessionSpec == InitSession /\ [][SessionNext]_vars

\* ------------------------------------------------------------------ claims
InputFigures == 1..Len(images)
Undecodable == { x \in InputFigures : ~images[x].decodable }
FiguresIn(rs) == UNION { { rs[k][x] : x \in DOMAIN rs[k] } : k \in DOMAIN rs }
Rendered == FiguresIn(RowsOf(rows))
\* The layout loop of the current generation has ended.
LoopFinished == pc = "packing" \/ (pc = "idle" /\ outcome # "none")
\* The rows of the document a running or finished generatePdf has drawn.
PdfRows == IF genType = "pdf" /\ pc # "timer" THEN rows ELSE <<>>
ArtifactsOf(g) == { x \in DOMAIN artifacts : artifacts[x].gen = g }
ColumnCount == CASE layout = "list" -> 1 [] layout = "grid" -> 2 [] layout = "grid3" -> 3

\* C1: every row generatePdf draws is fully contained in the page it starts
\* on: its top is at or below the top margin and its top plus its height does
\* not pass PAGE_HEIGHT - MARGIN_BOTTOM.
C1_EveryRowWithinPage ==
  \A k \in DOMAIN PdfRows :
    /\ PdfRows[k].top >= Mm(MARGIN_Y)
    /\ PdfRows[k].top + PdfRows[k].height <= Mm(PAGE_HEIGHT - MARGIN_BOTTOM)

\* C2: when exactly one image of the sequence fails to normalize, only that
\* image is skipped: at the end of the loop the other N-1 figures are rendered,
\* in every layout and in both generators.
C2_OnlyTheFailedImageIsSkipped ==
  (LoopFinished /\ Cardinality(Undecodable) = 1)
    => Rendered = InputFigures \ Undecodable

\* C3: every rendered figure is labelled with the 1-based array index of the
\* image drawn in its cell, whatever was skipped before it; skipped numbers
\* stay gaps.
C3_FiguresLabelledByPosition ==
  /\ \A k \in DOMAIN rows : \A x \in DOMAIN rows[k].figs :
       rows[k].figs[x] = rows[k].imgs[x] + 1
  /\ Rendered \cap skipped = {}

C3_Witness ==
  \E k \in DOMAIN rows : \E x \in DOMAIN rows[k].figs :
    \E f \in skipped : f < rows[k].figs[x]

C5_PackagingFailureDeliversNothing ==
  /\ (pc = "idle" /\ outcome = "packagingError")
       => /\ status = Failed
          /\ ArtifactsOf(generations) = {}
  /\ \A g \in 1..generations : Cardinality(ArtifactsOf(g)) <= 1
  /\ pc # "idle" => ArtifactsOf(generations) = {}
  /\ \A x \in DOMAIN artifacts :
       FiguresIn(artifacts[x].rows) \cup artifacts[x].skipped = InputFigures

C5_Witness ==
  /\ pc = "idle"
  /\ outcome = "packagingError"
  /\ rows # <<>>
  /\ status = Failed

C8_TableHoldsExactlyTheRequestsInFlight ==
  /\ \A m \in workerInbox \cup mainInbox : m.id \in DOMAIN pendingRequests
  /\ (workerInbox = {} /\ mainInbox = {}) => DOMAIN pendingRequests = {}

\* C9: with several requests pending, a promise is only ever settled by the
\* completion message of its own request, never by the completion of another
\* request.
C9_CompletionsReachTheirOwnRequest ==
  \A req \in DOMAIN promises :
    promises[req].state # "pending" => promises[req].by = req

\* C10: a started generation never gets stuck: while isGenerating is set,
\* some step of the generator, the worker or the message handler can be taken.
C10_GenerationNeverStuck == status.isGenerating => ENABLED Next

\* C11: under any sequence of activations of the generate-DOCX, generate-PDF
\* and example controls at most one generation is in flight: a generation or
\* an example download only starts in a state where isGenerating is false,
\* and isGenerating is true exactly while one is in progress.
C11_OneGenerationInFlight ==
  /\ [](status.isGenerating <=> pc # "idle")
  /\ [][(pc' \in {"timer", "example"} /\ (pc' # pc \/ generations' # generations))
         => (~status.isGenerating /\ pc = "idle")]_vars

C11_Witness ==
  /\ generations = MaxGenerations
  /\ pc = "await"
  /\ Len(images) = TARGET_COUNT
  /\ artifacts # <<>>

\* C12: two runs of generatePdf on the same metadata, image list, layout and
\* style, with the same decode and text-measurement results, deliver
\* documents with the same number of pages and the same figure numbers on
\* each page.
C12_PdfRunsAgree ==
  \A a \in DOMAIN artifacts, b \in DOMAIN artifacts :
    (artifacts[a].type = "pdf" /\ artifacts[b].type = "pdf")
      => /\ artifacts[a].pages = artifacts[b].pages
         /\ artifacts[a].rowPages = artifacts[b].rowPages
         /\ \A k \in DOMAIN artifacts[a].rows :
              artifacts[a].rows[k] = artifacts[b].rows[k]

C12_Witness ==
  \E a \in DOMAIN artifacts, b \in DOMAIN artifacts :
    /\ a # b
    /\ artifacts[a].type = "pdf"
    /\ artifacts[b].type = "pdf"
    /\ Len(artifacts[a].rows) >= 2
    /\ artifacts[a].pages >= 2
    /\ artifacts[a].rowPages[1] = 1

\* The direct calls whose promise resolved, the source each result was
\* computed from, the size scaled before rotation and the size returned.
ResolvedCalls ==
  { req \in DOMAIN calls : req \in DOMAIN promises /\ promises[req].state = "resolved" }
SourceOf(req) == calls[promises[req].by]
ScaledOf(req) ==
  IF offscreen THEN ScaledSize(SourceOf(req).srcW, SourceOf(req).srcH)
  ELSE MainThreadScaledSize(SourceOf(req).srcW, SourceOf(req).srcH)
OutputOf(req) == [width |-> promises[req].width, height |-> promises[req].height]
Swapped(s) == [width |-> s.height, height |-> s.width]

\* C13 as stated: the output equals the scaled (height, width) if and only if
\* the rotation is 90 or 270, equals the scaled (width, height) for 0 and
\* 180, and a landscape source rotated by 90 gives a portrait output.
C13_SwappedIffRotated ==
  \A req \in ResolvedCalls :
    /\ (OutputOf(req) = Swapped(ScaledOf(req))) <=> (SourceOf(req).rotation \in {90, 270})
    /\ SourceOf(req).rotation \in {0, 180} => OutputOf(req) = ScaledOf(req)
    /\ (SourceOf(req).srcW > SourceOf(req).srcH /\ SourceOf(req).rotation = 90)
         => OutputOf(req).width < OutputOf(req).height

\* C13 amended: the output is the scaled (height, width) for rotations 90 and
\* 270 and the scaled (width, height) for 0 and 180, so it equals the swapped
\* size exactly for 90 and 270 whenever the scaled sides differ; a landscape
\* source rotated by 90 gives an output no wider than high, and a portrait
\* one whenever its scaled width still exceeds its scaled height.
C13_SwappedWhenRotated ==
  \A req \in ResolvedCalls :
    /\ SourceOf(req).rotation \in {90, 270} => OutputOf(req) = Swapped(ScaledOf(req))
    /\ SourceOf(req).rotation \in {0, 180} => OutputOf(req) = ScaledOf(req)
    /\ ScaledOf(req).width # ScaledOf(req).height
         => ((OutputOf(req) = Swapped(ScaledOf(req)))
               <=> (SourceOf(req).rotation \in {90, 270}))
    /\ (SourceOf(req).srcW > SourceOf(req).srcH /\ SourceOf(req).rotation = 90)
         => /\ OutputOf(req).width <= OutputOf(req).height
            /\ ScaledOf(req).width > ScaledOf(req).height
                 => OutputOf(req).width < OutputOf(req).height

C13_Witness ==
  \E req \in ResolvedCalls :
    /\ SourceOf(req).srcW > SourceOf(req).srcH
    /\ SourceOf(req).rotation = 270
    /\ OutputOf(req).width < OutputOf(req).height
    /\ OutputOf(req).height = MAX_DIMENSION

\* C14: neither the normalized width nor the normalized height exceeds
\* MAX_DIMENSION (1600), whatever the source size and the rotation, and a
\* source with both sides at most 1600 keeps its sides, swapped when the
\* rotation is 90 or 270.
C14_NormalizedWithinMaxDimension ==
  \A req \in ResolvedCalls :
    /\ OutputOf(req).width <= MAX_DIMENSION
    /\ OutputOf(req).height <= MAX_DIMENSION
    /\ (SourceOf(req).srcW <= MAX_DIMENSION /\ SourceOf(req).srcH <= MAX_DIMENSION)
         => LET src == [width |-> SourceOf(req).srcW, height |-> SourceOf(req).srcH]
            IN OutputOf(req) = IF SourceOf(req).rotation \in {90, 270}
                               THEN Swapped(src) ELSE src

C14_Witness ==
  \E req \in ResolvedCalls :
    /\ SourceOf(req).srcW > MAX_DIMENSION
    /\ SourceOf(req).srcH > SourceOf(req).srcW
    /\ SourceOf(req).rotation = 0
    /\ OutputOf(req).height = MAX_DIMENSION
    /\ OutputOf(req).width < MAX_DIMENSION

\* C15: when the source width or the source height is zero, both
\* implementations of calculateFitDimensions return {width: 0, height: 0}:
\* no non-zero and no non-numeric dimension.
C15_ZeroSideGivesZeroSize ==
  (fit.done /\ (fit.w = 0 \/ fit.h = 0))
    => (fit.width = Zero /\ fit.height = Zero)

\* The call of calculateFitDimensions returned, on positive sides.
FitDone == fit.done /\ fit.w > 0 /\ fit.h > 0
\* The width bound decides the ratio: maxW / w <= maxH / h.
WidthBinds == fit.maxW * fit.h <= fit.maxH * fit.w
\* The exact products w * r and h * r as fractions num / den.
ExactWidth ==
  IF WidthBinds THEN [num |-> fit.maxW, den |-> 1]
  ELSE [num |-> fit.w * fit.maxH, den |-> fit.h]
ExactHeight ==
  IF WidthBinds THEN [num |-> fit.h * fit.maxW, den |-> fit.w]
  ELSE [num |-> fit.maxH, den |-> 1]
\* x <= y on doubles.
AtMost(x, y) == ~Less(y, x)
\* The integer-valued double x is a nearest integer of the fraction q.
NearestInteger(x, q) ==
  \E n \in 0..(q.num \div q.den + 1) :
    /\ x = FromInt(n)
    /\ 2 * n * q.den - 2 * q.num <= q.den
    /\ 2 * q.num - 2 * n * q.den <= q.den

\* C16: on positive inputs the returned width is at most maxW and
\* the returned height at most maxH, they are w * r and h * r for
\* r = min(maxW / w, maxH / h) (nearest integers in the docx variant, as
\* computed in the pdf variant), and one of the bounds is reached.
C16_FitWithinBox ==
  FitDone =>
    /\ AtMost(fit.width, FromInt(fit.maxW))
    /\ AtMost(fit.height, FromInt(fit.maxH))
    /\ fit.width = FromInt(fit.maxW) \/ fit.height = FromInt(fit.maxH)
    /\ fit.impl = "docx"
         => NearestInteger(fit.width, ExactWidth) /\ NearestInteger(fit.height, ExactHeight)

\* What each strategy returns for a source: the settled state and the size.
WorkerOutcome(src) ==
  LET m == WorkerReply([id |-> 1, req |-> 1, img |-> src])
  IN [state |-> IF m.error THEN "rejected" ELSE "resolved",
      width |-> m.width, height |-> m.height]
MainThreadOutcome(src) ==
  LET c == MainThreadCanvasSize(src.srcW, src.srcH, src.rotation)
  IN IF src.decodable /\ ~NoPixels(c)
     THEN [state |-> "resolved", width |-> c.width, height |-> c.height]
     ELSE [state |-> "rejected", width |-> 0, height |-> 0]
\* The outcome of a direct call as its caller sees it, and whether anything
\* is still at work on the call.
OutcomeOf(req) ==
  [state |-> promises[req].state, width |-> promises[req].width,
   height |-> promises[req].height]
InFlight(req) ==
  \/ \E m \in workerInbox : m.req = req
  \/ \E m \in mainInbox : m.req = req
  \/ \E j \in mainThreadJobs : j.req = req

\* C17: the strategies are interchangeable.  Whichever strategy ran, the
\* call settles as the other strategy would settle it (the same width and
\* height, a rejection for an undecodable source), and it does not hang: a
\* pending call always has something at work on it.
C17_StrategiesInterchangeable ==
  \A req \in DOMAIN calls :
    /\ promises[req].state # "pending"
         => /\ OutcomeOf(req) = WorkerOutcome(calls[req])
            /\ OutcomeOf(req) = MainThreadOutcome(calls[req])
    /\ promises[req].state = "pending" => InFlight(req)

\* The text a reader sees: runs one after the other, lines with the space
\* their break replaced.
RECURSIVE Joined(_, _)
Joined(pieces, sep) ==
  IF Len(pieces) = 0 THEN <<>>
  ELSE IF Len(pieces) = 1 THEN pieces[1]
  ELSE pieces[1] \o sep \o Joined(Tail(pieces), sep)
CaptionText ==
  IF caption.kind = "lines" THEN Joined(caption.pieces, <<" ">>)
  ELSE Joined(caption.pieces, <<>>)

\* C18: in every layout and in both generators the caption text of figure n
\* is "Figura n: " followed by the description when the description is not
\* empty, and "Figura n" alone, without colon or trailing space, when it is
\* empty; the label is written in both cases.
C18_CaptionText ==
  caption.done =>
    /\ caption.pieces # <<>>
    /\ CaptionText =
         IF caption.description # <<>>
         THEN Figura \o Decimal(caption.idx + 1) \o <<":", " ">> \o caption.description
         ELSE Figura \o Decimal(caption.idx + 1)

C18_Witness ==
  /\ caption.done
  /\ caption.gen = "pdf"
  /\ caption.layout = "grid3"
  /\ caption.description = <<>>
  /\ caption.idx = 11
  /\ CaptionText = <<"F", "i", "g", "u", "r", "a", " ", "1", "2">>

\* The extension and the part of a saved name after "Relatório_fotografico_".
Extension == IF download.gen = "pdf" THEN 4 ELSE 5
SavedS == SubSeq(download.name, Len(BaseName(<<>>)) + 1, Len(download.name) - Extension)
AsciiAlnum ==
  { Lower[k] : k \in DOMAIN Lower } \cup { Upper[k] : k \in DOMAIN Upper }
  \cup { Digits[k] : k \in DOMAIN Digits }

\* C19: both generators save under Relatório_fotografico_<S>, where S is the
\* institution name with every code unit outside A-Z, a-z, 0-9 replaced by
\* "_", and the fallback Instituicao exactly when that is empty; S is never
\* empty and holds only ASCII letters, digits and "_".
C19_FileName ==
  download.done =>
    LET name == download.schoolName
        sanitized == [k \in 1..Len(name) |-> IF name[k] \in AsciiAlnum THEN name[k] ELSE "_"]
    IN /\ SubSeq(download.name, 1, Len(BaseName(<<>>))) = BaseName(<<>>)
       /\ SavedS = IF sanitized = <<>> THEN Instituicao ELSE sanitized
       /\ SavedS # <<>>
       /\ \A k \in DOMAIN SavedS : SavedS[k] \in AsciiAlnum \cup {"_"}

C19_Witness ==
  /\ download.done
  /\ download.gen = "doc"
  /\ download.schoolName = <<"Z", "U+017F", " ">>
  /\ SavedS = <<"Z", "_", "_">>

\* C20: with an empty image list handleGenerate starts no generation: a
\* step taken while the list is empty opens the error modal and changes
\* nothing else: isGenerating is not set, no generator is scheduled or
\* called, no image is normalized and no file is delivered.
C20_EmptyListStartsNothing ==
  [][images = <<>>
       => /\ errorModal'
          /\ UNCHANGED <<status, pc, genType, generations, i, got, awaiting,
                         outcome, artifacts>>
          /\ UNCHANGED <<appVars, docVars, workerVars, callVars>>]_vars

C20_Witness ==
  /\ images = <<>>
  /\ errorModal
  /\ ~status.isGenerating
  /\ pc = "idle"
  /\ generations = 0
  /\ artifacts = <<>>

\* A step of generatePdf that places a row, and the row it places.
PdfRowPlaced == genType = "pdf" /\ Len(rows') = Len(rows) + 1
PlacedRow == rows'[Len(rows')]

\* C21: before drawing a row generatePdf starts a new page exactly when
\* cursorY + rowHeight exceeds the usable content height, the page height
\* minus the top and the bottom margin; after a page break the page count has
\* grown by one and the row is drawn at the top margin, otherwise no page is
\* added and the row is drawn at cursorY.
C21_PageBreakAtContentHeight ==
  [][PdfRowPlaced =>
       IF cursorY + PlacedRow.height > Mm(PAGE_HEIGHT - MARGIN_Y - MARGIN_BOTTOM)
       THEN pages' = pages + 1 /\ PlacedRow.top = Mm(MARGIN_Y)
       ELSE pages' = pages /\ PlacedRow.top = cursorY]_vars

\* C21 amended: the same with the bottom margin line, the page height minus
\* the bottom margin, as the limit cursorY + rowHeight is compared with.
C21_PageBreakAtBottomMargin ==
  [][PdfRowPlaced =>
       IF cursorY + PlacedRow.height > Mm(PAGE_HEIGHT - MARGIN_BOTTOM)
       THEN /\ pages' = pages + 1
            /\ PlacedRow.top = Mm(MARGIN_Y)
            /\ PlacedRow.page = pages'
       ELSE /\ pages' = pages
            /\ PlacedRow.top = cursorY
            /\ PlacedRow.page = pages]_vars

C21_Witness ==
  /\ genType = "pdf"
  /\ \E k \in DOMAIN rows :
       /\ k > 1
       /\ rows[k].page = rows[k - 1].page + 1
       /\ rows[k].top = Mm(MARGIN_Y)
       /\ rows[k - 1].top + rows[k - 1].height + RowSpacing + rows[k].height
            > Mm(PAGE_HEIGHT - MARGIN_BOTTOM)

\* C22: a row generatePdf draws extends below the bottom margin line only if
\* its own height exceeds PAGE_HEIGHT - MARGIN_Y - MARGIN_BOTTOM: every row
\* at most that high ends at or above PAGE_HEIGHT - MARGIN_BOTTOM, whatever
\* rows, skips and page breaks preceded it.
C22_OnlyOversizedRowsOverflow ==
  \A k \in DOMAIN PdfRows :
    PdfRows[k].height <= Mm(PAGE_HEIGHT - MARGIN_Y - MARGIN_BOTTOM)
      => PdfRows[k].top + PdfRows[k].height <= Mm(PAGE_HEIGHT - MARGIN_BOTTOM)

C22_Witness ==
  \E k \in DOMAIN PdfRows :
    /\ k > 1
    /\ PdfRows[k].height <= Mm(PAGE_HEIGHT - MARGIN_Y - MARGIN_BOTTOM)
    /\ PdfRows[k].page = PdfRows[k - 1].page + 1
    /\ PdfRows[k - 1].top + PdfRows[k - 1].height > Mm(PAGE_HEIGHT - MARGIN_BOTTOM)
    /\ skipped # {}

\* C23: in generatePdf a normalization failure has no layout effect: the
\* step that skips an image or a row leaves cursorY, the page count and the
\* rows drawn unchanged, and every page a page break added holds the row
\* that triggered it, so no page is left blank.
C23_SkipHasNoLayoutEffect ==
  /\ [](genType = "pdf" /\ pc # "timer"
          => \A p \in 2..pages : \E k \in DOMAIN rows : rows[k].page = p)
  /\ [][(genType = "pdf" /\ skipped' # skipped /\ skipped' # {})
          => (cursorY' = cursorY /\ pages' = pages /\ rows' = rows)]_vars

C23_Witness ==
  /\ genType = "pdf"
  /\ pages >= 2
  /\ \E k \in DOMAIN rows : \E f \in skipped :
       /\ rows[k].page = 2
       /\ rows[k].top = Mm(MARGIN_Y)
       /\ f + 1 = rows[k].figs[1]

\* The figure numbers of the rows placed so far, in the order of placement.
RECURSIVE PlacedFigures(_)
PlacedFigures(rs) ==
  IF rs = <<>> THEN <<>>
  ELSE PlacedFigures(SubSeq(rs, 1, Len(rs) - 1)) \o rs[Len(rs)].figs
StrictlyIncreasing(seq) == \A x, y \in DOMAIN seq : x < y => seq[x] < seq[y]

\* C24: placement is strictly sequential.  While a generator awaits a
\* normalization, that request is the only one not settled, it belongs to the
\* row starting at i, every figure before that row has been placed or
\* skipped and none after it has; the figure numbers of the rows placed are
\* strictly increasing.
C24_PlacementIsSequential ==
  /\ pc = "await"
       => /\ awaiting = Len(promises)
          /\ \A req \in DOMAIN promises :
               req # awaiting => promises[req].state # "pending"
          /\ (i + Len(got)) \in RowMembers(i)
          /\ Rendered \cup skipped = 1..i
  /\ pc # "timer" => StrictlyIncreasing(PlacedFigures(rows))

C24_Witness ==
  /\ pc = "await"
  /\ offscreen
  /\ Len(rows) >= 1
  /\ skipped # {}
  /\ promises[awaiting].state = "pending"
  /\ \E m \in mainInbox : m.req = awaiting

\* The rows of the 2- and 3-column layouts a generatePdf has drawn, the
\* caption height of a member and what a row's height exceeds the fixed cell
\* height, its highest caption and the fixed spacing by.
GridRows == IF layout = "list" THEN <<>> ELSE PdfRows
MemberCaption(x) ==
  images[x + 1].lines * (IF layout = "grid3" THEN GRID3_LINE_HALF_MM ELSE Mm(4))
HighestCaption(row) ==
  CHOOSE c \in { MemberCaption(row.imgs[x]) : x \in DOMAIN row.imgs } :
    \A x \in DOMAIN row.imgs : MemberCaption(row.imgs[x]) <= c
StylePadding(row) ==
  row.height - HighestCaption(row) - Mm(8)
  - (IF layout = "grid3" THEN Mm(GRID3_CELL_HEIGHT) ELSE Mm(GRID_CELL_HEIGHT))

\* C25: in the 2- and 3-column layouts of generatePdf the row height is the
\* fixed cell height plus the highest caption among the members the row has
\* plus a fixed spacing plus twice the style padding, which is 0 for the
\* plain style and positive for the bordered one; a missing cell adds
\* nothing.
C25_GridRowHeight ==
  \A k \in DOMAIN GridRows :
    /\ styleMode = "simple" => StylePadding(GridRows[k]) = 0
    /\ styleMode # "simple"
         => StylePadding(GridRows[k]) = 2 * (IF layout = "grid3" THEN Mm(3) ELSE Mm(4))

C25_Witness ==
  /\ styleMode = "card"
  /\ layout = "grid3"
  /\ \E k \in DOMAIN GridRows :
       /\ Len(GridRows[k].imgs) = 2
       /\ MemberCaption(GridRows[k].imgs[1]) < MemberCaption(GridRows[k].imgs[2])
       /\ StylePadding(GridRows[k]) > 0

\* The requests processImage has issued that are not settled.
PendingCalls == { req \in DOMAIN promises : promises[req].state = "pending" }

\* C26: as each processImage call is awaited before the next is issued and
\* generations do not overlap, at most one normalization request is pending
\* at any time and pendingRequests never holds two entries.
C26_AtMostOnePendingRequest ==
  /\ Cardinality(PendingCalls) <= 1
  /\ Cardinality(DOMAIN pendingRequests) <= 1

C26_Witness ==
  /\ offscreen
  /\ pc = "await"
  /\ Len(got) = 1
  /\ Cardinality(DOMAIN pendingRequests) = 1
  /\ PendingCalls = {Len(promises)}
  /\ generations = 2

\* An editing step that reorders: the ids come out in another order.
IdsOf(items) == [k \in DOMAIN items |-> items[k].id]
Reordered == IdsOf(editor'.images) # IdsOf(editor.images)
                /\ Len(editor'.images) = Len(editor.images)

\* C28: handleDragEnd turns the image list into a permutation of itself, the
\* same records, none lost and none duplicated; after any sequence of
\* upload, remove, rotate, description-edit and reorder operations the ids
\* of the list are pairwise distinct.
C28_ReorderPermutes ==
  /\ [](\A x, y \in DOMAIN editor.images :
          editor.images[x].id = editor.images[y].id => x = y)
  /\ [][Reordered
          => \E p \in [DOMAIN editor.images -> DOMAIN editor.images] :
               /\ \A x, y \in DOMAIN p : p[x] = p[y] => x = y
               /\ \A x \in DOMAIN p : editor'.images[x] = editor.images[p[x]]]_vars

C28_Witness ==
  /\ IdsOf(editor.images) = <<3, 1>>
  /\ editor.images[2].rotation = 90
  /\ editor.images[1].hasDescription

\* C29: after any sequence of upload, rotate, remove, reorder and
\* description-edit operations every rotation in the list is 0, 90, 180 or
\* 270; rotateImage changes the targeted image only, advancing its rotation
\* by 90 modulo 360.
C29_RotationsAreQuarterTurns ==
  /\ [](\A k \in DOMAIN editor.images : editor.images[k].rotation \in {0, 90, 180, 270})
  /\ [][\A id \in 1..MaxUploads :
          (RotateImage(id) /\ editor' # editor)
            => /\ Len(editor'.images) = Len(editor.images)
               /\ \A k \in DOMAIN editor.images :
                    IF editor.images[k].id = id
                    THEN /\ editor'.images[k].rotation
                              = (editor.images[k].rotation + 90) % 360
                         /\ [editor'.images[k] EXCEPT !.rotation = 0]
                              = [editor.images[k] EXCEPT !.rotation = 0]
                    ELSE editor'.images[k] = editor.images[k]]_vars

C29_Witness ==
  \E k \in DOMAIN editor.images :
    /\ editor.images[k].rotation = 0
    /\ editor.images[k].hasDescription
    /\ editor.ids > Len(editor.images)

\* C27: a generation renders the image list, layout and style as they were
\* when handleGenerate was invoked: while it is scheduled or running the
\* generator reads what was captured then, whatever the user edits
\* meanwhile, and when its loop has ended the figures placed and skipped are
\* those of the captured list, numbered by their positions in it.
C27_GenerationRendersItsSnapshot ==
  /\ pc # "idle"
       => /\ images = editor.captured.images
          /\ layout = editor.captured.layout
          /\ styleMode = editor.captured.styleMode
  /\ (LoopFinished /\ generations > 0)
       => /\ Rendered \cup skipped = 1..Len(editor.captured.images)
          /\ \A k \in DOMAIN rows : \A x \in DOMAIN rows[k].figs :
               images[rows[k].figs[x]] = editor.captured.images[rows[k].imgs[x] + 1]

C27_Witness ==
  /\ pc = "await"
  /\ edits = MaxEdits
  /\ IdsOf(editor.images) # IdsOf(images)
  /\ \E k \in DOMAIN editor.images : editor.images[k].rotation = 180

\* C30: for every source image with positive pixel dimensions both
\* normalized dimensions are at least 1: scaling down to MAX_DIMENSION
\* rounds neither side of the canvas to 0, on either strategy, and no call
\* on a decodable source is rejected for a canvas without pixels.
C30_NormalizedSidesAtLeastOne ==
  \A req \in DOMAIN calls :
    (calls[req].decodable /\ calls[req].srcW >= 1 /\ calls[req].srcH >= 1)
      => /\ ~NoPixels(CanvasSize(calls[req].srcW, calls[req].srcH,
                                 calls[req].rotation))
         /\ ~NoPixels(MainThreadCanvasSize(calls[req].srcW, calls[req].srcH,
                                           calls[req].rotation))
         /\ promises[req].state # "rejected"
         /\ promises[req].state = "resolved"
              => promises[req].width >= 1 /\ promises[req].height >= 1

====
